---- MODULE Spec2Model ----
(***************************************************************************)
(* Veo Source Analyzer: the response parser (parseAnalysisResult), the     *)
(* binary encoder (fileToBase64), the analysis client (analyzeVideo) and   *)
(* the App component's state and handlers.                                 *)
(*                                                                         *)
(* A JavaScript string is a sequence of one-character strings, so that     *)
(* match, trim, split and startsWith are computed character by character.  *)
(***************************************************************************)
EXTENDS Integers, Sequences, FiniteSets, TLC

VARIABLES
    videoFile,       \* App state: the selected File, NoFile for null
    isLoading,       \* App state
    analysisResult,  \* App state: string or Null
    error,           \* App state: string or Null
    requests,        \* the handleAnalyzeVideo calls suspended at an await
    remoteCalls,     \* history: the generateContent requests sent
    last,            \* history: the attempt that completed last, until the next reset
    segs,            \* parser input: the segments the text is built from
    lines,           \* parser input: the table lines standing for segment "TBL"
    parsed           \* parser output, NotParsed before the call

appVars == <<videoFile, isLoading, analysisResult, error, requests, remoteCalls, last>>

parserVars == <<segs, lines, parsed>>

vars == <<videoFile, isLoading, analysisResult, error, requests, remoteCalls, last,
          segs, lines, parsed>>

\* ---------------------------------------------------------------- bounds
MaxSegs == 5
MaxLines == 4
MaxInFlight == 2

\* ---------------------------------------------------------------- values
\* JavaScript null in a string-typed slot; no string equals it, since the
\* elements of a string are single characters.
Null == <<"null">>

\* parseAnalysisResult's null, and the null a table line maps to.
NullAnalysis == [isNull |-> TRUE]

\* videoFile's null.
NoFile == "none"

\* No attempt has completed since the state was last reset.
NoAttempt == [none |-> TRUE]

\* The parser has not run yet.
NotParsed == [notParsed |-> TRUE]

Min(S) == CHOOSE x \in S : \A y \in S : x <= y

Max(S) == CHOOSE x \in S : \A y \in S : x >= y

\* ------------------------------------------------- string primitives (JS)
\* White space as String.prototype.trim sees it (the characters the inputs use).
IsSpace(c) == c \in {" ", "\n", "\t", "\r"}

\* String.prototype.trim
trim(s) ==
    LET idx == {i \in 1..Len(s) : ~IsSpace(s[i])}
    IN  IF idx = {} THEN <<>> ELSE SubSeq(s, Min(idx), Max(idx))

\* The literal pat occurs in text at position i.
OccursAt(text, pat, i) ==
    /\ i >= 1
    /\ i + Len(pat) - 1 <= Len(text)
    /\ \A k \in 1..Len(pat) : text[i + k - 1] = pat[k]

\* String.prototype.startsWith
startsWith(s, prefix) == OccursAt(s, prefix, 1)

\* text.match(/open([\s\S]*?)close/): capture group 1 of the leftmost match, the
\* lazy group ending at the nearest close; Null when there is no match.
matchBetween(text, open, close) ==
    LET ends(i) == {j \in (i + Len(open))..Len(text) : OccursAt(text, close, j)}
        starts == {i \in 1..Len(text) : OccursAt(text, open, i) /\ ends(i) # {}}
    IN  IF starts = {} THEN Null
        ELSE LET i == Min(starts)
             IN  SubSeq(text, i + Len(open), Min(ends(i)) - 1)

\* text.match(/open([\s\S]*)/): everything after the leftmost open; Null when
\* open does not occur.
matchAfter(text, open) ==
    LET starts == {i \in 1..Len(text) : OccursAt(text, open, i)}
    IN  IF starts = {} THEN Null
        ELSE SubSeq(text, Min(starts) + Len(open), Len(text))

\* String.prototype.split with a one-character separator.
RECURSIVE split(_, _)
split(s, sep) ==
    LET idx == {i \in 1..Len(s) : s[i] = sep}
    IN  IF idx = {} THEN <<s>>
        ELSE <<SubSeq(s, 1, Min(idx) - 1)>> \o split(SubSeq(s, Min(idx) + 1, Len(s)), sep)

\* Array.prototype.slice(n)
slice(a, n) == SubSeq(a, n + 1, Len(a))

\* Array.prototype.map
map(a, F(_)) == [i \in 1..Len(a) |-> F(a[i])]

\* ------------------------------------------------------- response parser
\* "GLOBAL COHESION BLOCK"
GLOBAL_COHESION_BLOCK == <<"G", "L", "O", "B", "A", "L", " ", "C", "O", "H", "E", "S", "I", "O",
                           "N", " ", "B", "L", "O", "C", "K">>

\* "DETAILED SCENE BREAKDOWN TABLE"
DETAILED_SCENE_BREAKDOWN_TABLE == <<"D", "E", "T", "A", "I", "L", "E", "D", " ", "S", "C", "E",
                                    "N", "E", " ", "B", "R", "E", "A", "K", "D", "O", "W", "N",
                                    " ", "T", "A", "B", "L", "E">>

\* "TECHNICAL STYLE ANALYSIS"
TECHNICAL_STYLE_ANALYSIS == <<"T", "E", "C", "H", "N", "I", "C", "A", "L", " ", "S", "T", "Y",
                              "L", "E", " ", "A", "N", "A", "L", "Y", "S", "I", "S">>

\* globalCohesionBlockMatch ? globalCohesionBlockMatch[1].trim() : ''
globalCohesionBlock(text) ==
    LET m == matchBetween(text, GLOBAL_COHESION_BLOCK, DETAILED_SCENE_BREAKDOWN_TABLE)
    IN  IF m # Null THEN trim(m) ELSE <<>>

\* tableMatch ? tableMatch[1].trim() : ''
tableString(text) ==
    LET m == matchBetween(text, DETAILED_SCENE_BREAKDOWN_TABLE, TECHNICAL_STYLE_ANALYSIS)
    IN  IF m # Null THEN trim(m) ELSE <<>>

IsNonEmpty(cell) == cell # <<>>

\* Variant of parseRow: the cell count tested with >= instead of ===.
parseRow_atLeastThree(row) ==
    LET cells == SelectSeq(map(split(row, "|"), trim), IsNonEmpty)
    IN  IF Len(cells) >= 3
        THEN [timestamp |-> cells[1], action |-> cells[2], notes |-> cells[3]]
        ELSE NullAnalysis

\* The .map callback: the row's trimmed non-empty cells, a TableRow when there are
\* exactly three of them and null otherwise.
parseRow(row) ==
    LET cells == SelectSeq(map(split(row, "|"), trim), IsNonEmpty)
    IN  IF Len(cells) = 3
        THEN [timestamp |-> cells[1], action |-> cells[2], notes |-> cells[3]]
        ELSE NullAnalysis

IsRow(row) == row # NullAnalysis

\* Variant of sceneBreakdown: slice(1), only the header line skipped.
sceneBreakdown_skipOne(table) ==
    SelectSeq(map(slice(split(table, "\n"), 1), parseRow), IsRow)

\* tableString.split('\n').slice(2).map(...).filter(row => row !== null)
sceneBreakdown(table) ==
    SelectSeq(map(slice(split(table, "\n"), 2), parseRow), IsRow)

\* Variant of technicalAnalysis: the capture group without trim().
technicalAnalysis_untrimmed(text) ==
    LET m == matchAfter(text, TECHNICAL_STYLE_ANALYSIS)
    IN  IF m # Null THEN m ELSE <<>>

\* technicalAnalysisMatch ? technicalAnalysisMatch[1].trim() : ''
technicalAnalysis(text) ==
    LET m == matchAfter(text, TECHNICAL_STYLE_ANALYSIS)
    IN  IF m # Null THEN trim(m) ELSE <<>>

\* Variant of parseAnalysisResult: null as soon as one field is empty (|| for &&).
parseAnalysisResult_anyEmpty(text) ==
    LET gcb == globalCohesionBlock(text)
        rows == sceneBreakdown(tableString(text))
        tech == technicalAnalysis(text)
    IN  IF gcb = <<>> \/ Len(rows) = 0 \/ tech = <<>>
        THEN NullAnalysis
        ELSE [globalCohesionBlock |-> gcb, sceneBreakdown |-> rows,
              technicalAnalysis |-> tech]

\* parseAnalysisResult. match, trim, split, slice, map and filter do not throw
\* on a string, so the catch branch (return null) is not taken.
parseAnalysisResult(text) ==
    LET gcb == globalCohesionBlock(text)
        rows == sceneBreakdown(tableString(text))
        tech == technicalAnalysis(text)
    IN  IF gcb = <<>> /\ Len(rows) = 0 /\ tech = <<>>
        THEN NullAnalysis
        ELSE [globalCohesionBlock |-> gcb, sceneBreakdown |-> rows,
              technicalAnalysis |-> tech]

\* --------------------------------------------------------- binary encoder
\* The files the user can pick. FileType is File.type; ReaderResult is what
\* FileReader.readAsDataURL delivers: a data URL (onload), or Null for a read
\* that fails (onerror).
Files == {"clip", "movie", "photo", "empty", "codecs", "untyped", "broken"}

FileType(f) ==
    \* "video/mp4"
    CASE f = "clip"   -> <<"v", "i", "d", "e", "o", "/", "m", "p", "4">>
      \* "video/webm"
      [] f = "movie"  -> <<"v", "i", "d", "e", "o", "/", "w", "e", "b", "m">>
      \* "image/png"
      [] f = "photo"  -> <<"i", "m", "a", "g", "e", "/", "p", "n", "g">>
      \* "video/mp4"
      [] f = "empty"  -> <<"v", "i", "d", "e", "o", "/", "m", "p", "4">>
      \* "video/mp4;codecs=a,b"
      [] f = "codecs" -> <<"v", "i", "d", "e", "o", "/", "m", "p", "4", ";", "c", "o", "d", "e",
                           "c", "s", "=", "a", ",", "b">>
      [] f = "untyped" -> <<>>
      \* "video/mp4"
      [] f = "broken" -> <<"v", "i", "d", "e", "o", "/", "m", "p", "4">>

ReaderResult(f) ==
    \* "data:video/mp4;base64,AAEC"
    CASE f = "clip"   -> <<"d", "a", "t", "a", ":", "v", "i", "d", "e", "o", "/", "m", "p", "4",
                           ";", "b", "a", "s", "e", "6", "4", ",", "A", "A", "E", "C">>
      \* "data:video/webm;base64,Bw=="
      [] f = "movie"  -> <<"d", "a", "t", "a", ":", "v", "i", "d", "e", "o", "/", "w", "e", "b",
                           "m", ";", "b", "a", "s", "e", "6", "4", ",", "B", "w", "=", "=">>
      \* "data:image/png;base64,iVBO"
      [] f = "photo"  -> <<"d", "a", "t", "a", ":", "i", "m", "a", "g", "e", "/", "p", "n", "g",
                           ";", "b", "a", "s", "e", "6", "4", ",", "i", "V", "B", "O">>
      \* "data:"
      [] f = "empty"  -> <<"d", "a", "t", "a", ":">>
      \* "data:video/mp4;codecs=a,b;base64,AAEC"
      [] f = "codecs" -> <<"d", "a", "t", "a", ":", "v", "i", "d", "e", "o", "/", "m", "p", "4",
                           ";", "c", "o", "d", "e", "c", "s", "=", "a", ",", "b", ";", "b", "a",
                           "s", "e", "6", "4", ",", "A", "A", "E", "C">>
      \* "data:application/octet-stream;base64,AAEC"
      [] f = "untyped" -> <<"d", "a", "t", "a", ":", "a", "p", "p", "l", "i", "c", "a", "t",
                            "i", "o", "n", "/", "o", "c", "t", "e", "t", "-", "s", "t", "r",
                            "e", "a", "m", ";", "b", "a", "s", "e", "6", "4", ",", "A", "A",
                            "E", "C">>
      [] f = "broken" -> Null

\* new Error(message)
Error(message) == [isError |-> TRUE, message |-> message]

\* A rejection value that is no Error: FileReader's error event, or any other
\* value a promise is rejected with.
NotAnError == [isError |-> FALSE, message |-> Null]

Resolve(data, mime) ==
    [settled |-> "resolve", base64Data |-> data, mimeType |-> mime, reason |-> NotAnError]

Reject(reason) ==
    [settled |-> "reject", base64Data |-> Null, mimeType |-> Null, reason |-> reason]

\* fileToBase64: how the promise settles for a file.
fileToBase64(file) ==
    LET result == ReaderResult(file)
        parts == split(result, ",")
        mimeMatch == matchBetween(parts[1], <<":">>, <<";">>)
    IN  IF result = Null THEN Reject(NotAnError)
        \* "Invalid data URL format"
        ELSE IF Len(parts) # 2 THEN Reject(Error(<<"I", "n", "v", "a", "l", "i", "d", " ", "d",
                                                   "a", "t", "a", " ", "U", "R", "L", " ", "f",
                                                   "o", "r", "m", "a", "t">>))
        ELSE IF mimeMatch = Null
             \* "Could not determine MIME type from data URL"
             THEN Reject(Error(<<"C", "o", "u", "l", "d", " ", "n", "o", "t", " ", "d", "e",
                                 "t", "e", "r", "m", "i", "n", "e", " ", "M", "I", "M", "E",
                                 " ", "t", "y", "p", "e", " ", "f", "r", "o", "m", " ", "d",
                                 "a", "t", "a", " ", "U", "R", "L">>))
        ELSE Resolve(parts[2], mimeMatch)

\* -------------------------------------------------------- analysis client
\* Variant of isVideoMime: any non-empty MIME type accepted.
isVideoMime_nonEmpty(mimeType) == mimeType # <<>>

\* mimeType.startsWith('video/')
\* "video/"
isVideoMime(mimeType) == startsWith(mimeType, <<"v", "i", "d", "e", "o", "/">>)

\* The catch block of analyzeVideo: the string returned for a thrown value.
catchResult(thrown) ==
    \* "Error: "
    IF thrown.isError THEN <<"E", "r", "r", "o", "r", ":", " ">> \o thrown.message
    \* "An unknown error occurred during video analysis."
    ELSE <<"A", "n", " ", "u", "n", "k", "n", "o", "w", "n", " ", "e", "r", "r", "o", "r", " ",
           "o", "c", "c", "u", "r", "r", "e", "d", " ", "d", "u", "r", "i", "n", "g", " ", "v",
           "i", "d", "e", "o", " ", "a", "n", "a", "l", "y", "s", "i", "s", ".">>

\* The texts the remote model answers with.
ResponseTexts ==
    { <<>>,
      \* "Error: no video content found"
      <<"E", "r", "r", "o", "r", ":", " ", "n", "o", " ", "v", "i", "d", "e", "o", " ", "c",
        "o", "n", "t", "e", "n", "t", " ", "f", "o", "u", "n", "d">>,
      \* "Nothing to report."
      <<"N", "o", "t", "h", "i", "n", "g", " ", "t", "o", " ", "r", "e", "p", "o", "r", "t",
        ".">>,
      \* "GLOBAL COHESION BLOCK\nCharacters: a dog\nDETAILED SCENE BREAKDOWN TABLE\n| A | B | C |\n|---|---|---|\n| 00:00-00:05 | Dog runs | Wide shot |\nTECHNICAL STYLE ANALYSIS\nDocumentary style."
      <<"G", "L", "O", "B", "A", "L", " ", "C", "O", "H", "E", "S", "I", "O", "N", " ", "B",
        "L", "O", "C", "K", "\n", "C", "h", "a", "r", "a", "c", "t", "e", "r", "s", ":", " ",
        "a", " ", "d", "o", "g", "\n", "D", "E", "T", "A", "I", "L", "E", "D", " ", "S", "C",
        "E", "N", "E", " ", "B", "R", "E", "A", "K", "D", "O", "W", "N", " ", "T", "A", "B",
        "L", "E", "\n", "|", " ", "A", " ", "|", " ", "B", " ", "|", " ", "C", " ", "|", "\n",
        "|", "-", "-", "-", "|", "-", "-", "-", "|", "-", "-", "-", "|", "\n", "|", " ", "0",
        "0", ":", "0", "0", "-", "0", "0", ":", "0", "5", " ", "|", " ", "D", "o", "g", " ",
        "r", "u", "n", "s", " ", "|", " ", "W", "i", "d", "e", " ", "s", "h", "o", "t", " ",
        "|", "\n", "T", "E", "C", "H", "N", "I", "C", "A", "L", " ", "S", "T", "Y", "L", "E",
        " ", "A", "N", "A", "L", "Y", "S", "I", "S", "\n", "D", "o", "c", "u", "m", "e", "n",
        "t", "a", "r", "y", " ", "s", "t", "y", "l", "e", ".">> }

\* How ai.models.generateContent settles: a response with a text, a thrown
\* Error (network, quota), or a rejection with a value that is no Error.
RemoteOutcomes ==
    {[text |-> t, thrown |-> NotAnError, ok |-> TRUE] : t \in ResponseTexts}
    \* "quota exceeded"
    \cup {[text |-> Null, thrown |-> Error(<<"q", "u", "o", "t", "a", " ", "e", "x", "c", "e",
                                             "e", "d", "e", "d">>), ok |-> FALSE],
          [text |-> Null, thrown |-> NotAnError, ok |-> FALSE]}

\* ------------------------------------------------------------ App component
\* JavaScript truthiness of a string-or-null value.
Truthy(s) == s # Null /\ s # <<>>

\* Variant of analyzeDisabled: disabled={!videoFile}.
analyzeDisabled_noLoading == videoFile = NoFile

\* The Analyze button: disabled={!videoFile || isLoading}
analyzeDisabled == videoFile = NoFile \/ isLoading

\* useMemo: parsedResult
parsedResult ==
    IF ~Truthy(analysisResult) THEN NullAnalysis ELSE parseAnalysisResult(analysisResult)

\* What the result section renders.
showsLoader == isLoading

showsError == Truthy(error)

showsStructured == Truthy(analysisResult) /\ parsedResult # NullAnalysis

showsRaw == Truthy(analysisResult) /\ parsedResult = NullAnalysis

Remove(seq, i) == SubSeq(seq, 1, i - 1) \o SubSeq(seq, i + 1, Len(seq))

\* handleFileChange for a picked file (without a file the handler does nothing).
handleFileChange(f) ==
    /\ analysisResult' = Null
    /\ error' = Null
    /\ videoFile' = f
    /\ last' = NoAttempt
    /\ UNCHANGED <<isLoading, requests, remoteCalls>>
    /\ UNCHANGED parserVars

\* A click on the enabled Analyze button: handleAnalyzeVideo up to its await,
\* analyzeVideo up to its await of fileToBase64, the reader started.
handleAnalyzeVideo ==
    /\ ~analyzeDisabled
    /\ Len(requests) < MaxInFlight
    /\ IF videoFile = NoFile
       \* "Please select a video file first."
       THEN /\ error' = <<"P", "l", "e", "a", "s", "e", " ", "s", "e", "l", "e", "c", "t", " ",
                          "a", " ", "v", "i", "d", "e", "o", " ", "f", "i", "l", "e", " ", "f",
                          "i", "r", "s", "t", ".">>
            /\ UNCHANGED <<isLoading, analysisResult, requests>>
       ELSE /\ isLoading' = TRUE
            /\ analysisResult' = Null
            /\ error' = Null
            /\ requests' = Append(requests, [file |-> videoFile, pc |-> "reading",
                                             mimeType |-> Null])
    /\ last' = NoAttempt
    /\ UNCHANGED <<videoFile, remoteCalls>>
    /\ UNCHANGED parserVars

\* analyzeVideo has returned result to request i: the rest of handleAnalyzeVideo
\* (the prefix test, setAnalysisResult or setError, finally setIsLoading(false)).
Complete(i, result, failed, called, mime, text) ==
    \* "Error:"
    /\ IF startsWith(result, <<"E", "r", "r", "o", "r", ":">>)
       THEN error' = result /\ UNCHANGED analysisResult
       ELSE analysisResult' = result /\ UNCHANGED error
    /\ isLoading' = FALSE
    /\ requests' = Remove(requests, i)
    /\ last' = [file |-> requests[i].file, failed |-> failed, returned |-> result,
                called |-> called, mimeType |-> mime, text |-> text]

\* The reader of request i settles: fileToBase64 resolves or rejects, and
\* analyzeVideo runs on to the MIME check and the generateContent call.
ReadSettled(i) ==
    /\ requests[i].pc = "reading"
    /\ LET enc == fileToBase64(requests[i].file)
       IN  IF enc.settled = "reject"
           THEN /\ Complete(i, catchResult(enc.reason), TRUE, FALSE, Null, Null)
                /\ UNCHANGED remoteCalls
           ELSE IF ~isVideoMime(enc.mimeType)
           \* "Invalid file type. Please upload a video file."
           THEN /\ Complete(i, catchResult(Error(<<"I", "n", "v", "a", "l", "i", "d", " ", "f",
                                                   "i", "l", "e", " ", "t", "y", "p", "e", ".",
                                                   " ", "P", "l", "e", "a", "s", "e", " ", "u",
                                                   "p", "l", "o", "a", "d", " ", "a", " ", "v",
                                                   "i", "d", "e", "o", " ", "f", "i", "l", "e",
                                                   ".">>)),
                            TRUE, FALSE, enc.mimeType, Null)
                /\ UNCHANGED remoteCalls
           ELSE /\ remoteCalls' = remoteCalls \cup
                       {[file |-> requests[i].file, data |-> enc.base64Data,
                         mimeType |-> enc.mimeType]}
                /\ requests' = [requests EXCEPT ![i].pc = "calling",
                                                ![i].mimeType = enc.mimeType]
                /\ UNCHANGED <<isLoading, analysisResult, error, last>>
    /\ UNCHANGED videoFile
    /\ UNCHANGED parserVars

\* generateContent settles for request i: analyzeVideo returns response.text,
\* or its catch block returns the string for the thrown value.
RemoteSettled(i, o) ==
    /\ requests[i].pc = "calling"
    /\ IF o.ok
       THEN Complete(i, o.text, FALSE, TRUE, requests[i].mimeType, o.text)
       ELSE Complete(i, catchResult(o.thrown), TRUE, TRUE, requests[i].mimeType, Null)
    /\ UNCHANGED <<videoFile, remoteCalls>>
    /\ UNCHANGED parserVars

AppInit ==
    /\ videoFile = NoFile
    /\ isLoading = FALSE
    /\ analysisResult = Null
    /\ error = Null
    /\ requests = <<>>
    /\ remoteCalls = {}
    /\ last = NoAttempt

Init ==
    /\ AppInit
    /\ segs = <<>>
    /\ lines = <<>>
    /\ parsed = NotParsed

Next ==
    \/ \E f \in Files : handleFileChange(f)
    \/ handleAnalyzeVideo
    \/ \E i \in 1..Len(requests) : ReadSettled(i)
    \/ \E i \in 1..Len(requests) : \E o \in RemoteOutcomes : RemoteSettled(i, o)

Spec == Init /\ [][Next]_vars

\* ------------------------------------------------ parser inputs (built)
\* A table line is built from its cells: joined by "|", each cell padded with
\* a space when pad, the whole line wrapped in "|" when outer.
LineDef(l) ==
    \* "0:05", "Dog runs", "Wide"
    CASE l = "rowA"  -> [cells |-> <<<<"0", ":", "0", "5">>, <<"D", "o", "g", " ", "r", "u",
                                     "n", "s">>, <<"W", "i", "d", "e">>>>, outer |-> TRUE,
                                     pad |-> TRUE]
      [] l = "rowB"  -> [cells |-> <<<<"x">>, <<"y">>, <<"z">>>>, outer |-> FALSE,
                                     pad |-> FALSE]
      [] l = "two"   -> [cells |-> <<<<"p">>, <<"q">>>>, outer |-> TRUE, pad |-> TRUE]
      [] l = "four"  -> [cells |-> <<<<"p">>, <<"q">>, <<"r">>, <<"s">>>>, outer |-> TRUE,
                                     pad |-> FALSE]
      [] l = "gap"   -> [cells |-> <<<<"a">>, <<>>, <<"c">>, <<"d">>>>, outer |-> TRUE,
                                     pad |-> TRUE]
      [] l = "blank" -> [cells |-> << <<>> >>, outer |-> FALSE, pad |-> FALSE]

LineIds == {"rowA", "rowB", "two", "four", "gap", "blank"}

RECURSIVE Join(_, _)
Join(parts, sep) ==
    IF parts = <<>> THEN <<>>
    ELSE IF Len(parts) = 1 THEN parts[1]
    ELSE parts[1] \o sep \o Join(Tail(parts), sep)

PadCell(c) == <<" ">> \o c \o <<" ">>

RenderLine(l) ==
    LET d == LineDef(l)
        body == Join(IF d.pad THEN map(d.cells, PadCell) ELSE d.cells, <<"|">>)
    IN  IF d.outer THEN <<"|">> \o body \o <<"|">> ELSE body

\* The text a segment stands for.
SegText(s, ls) ==
    CASE s = "G"   -> GLOBAL_COHESION_BLOCK
      [] s = "D"   -> DETAILED_SCENE_BREAKDOWN_TABLE
      [] s = "T"   -> TECHNICAL_STYLE_ANALYSIS
      \* "\n a dog \n"
      [] s = "txt" -> <<"\n", " ", "a", " ", "d", "o", "g", " ", "\n">>
      \* " \n"
      [] s = "ws"  -> <<" ", "\n">>
      \* "\n"
      [] s = "TBL" -> Join(map(ls, RenderLine), <<"\n">>)

FreeSegs == {"G", "D", "T", "txt", "ws"}

Skeletons == { <<"G", "txt", "D", "TBL", "T", "txt">>, <<"D", "TBL", "T">>, <<"D", "TBL">> }

RECURSIVE Concat(_)
Concat(parts) == IF parts = <<>> THEN <<>> ELSE parts[1] \o Concat(Tail(parts))

SegTexts(ss, ls) == [i \in 1..Len(ss) |-> SegText(ss[i], ls)]

\* The text handed to the parser.
InputText == Concat(SegTexts(segs, lines))

\* ------------------------------------------------------------ parser spec
ParseInit ==
    /\ AppInit
    /\ segs \in {<<>>} \cup Skeletons
    /\ lines = <<>>
    /\ parsed = NotParsed

AddSegment(s) ==
    /\ parsed = NotParsed
    /\ \A i \in 1..Len(segs) : segs[i] # "TBL"
    /\ Len(segs) < MaxSegs
    /\ segs' = Append(segs, s)
    /\ UNCHANGED <<lines, parsed>>
    /\ UNCHANGED appVars

AddLine(l) ==
    /\ parsed = NotParsed
    /\ \E i \in 1..Len(segs) : segs[i] = "TBL"
    /\ Len(lines) < MaxLines
    /\ lines' = Append(lines, l)
    /\ UNCHANGED <<segs, parsed>>
    /\ UNCHANGED appVars

Parse ==
    /\ parsed = NotParsed
    /\ parsed' = parseAnalysisResult(InputText)
    /\ UNCHANGED <<segs, lines>>
    /\ UNCHANGED appVars

ParseNext ==
    \/ \E s \in FreeSegs : AddSegment(s)
    \/ \E l \in LineIds : AddLine(l)
    \/ Parse

ParseSpec == ParseInit /\ [][ParseNext]_vars

\* ------------------------------------- what the built input should yield
AllSpace(s) == \A i \in 1..Len(s) : IsSpace(s[i])

\* r is s without its leading and trailing white space.
IsTrimOf(r, s) ==
    IF r = <<>> THEN AllSpace(s)
    ELSE /\ ~IsSpace(r[1])
         /\ ~IsSpace(r[Len(r)])
         /\ \E i \in 1..(Len(s) - Len(r) + 1) :
               /\ SubSeq(s, i, i + Len(r) - 1) = r
               /\ AllSpace(SubSeq(s, 1, i - 1))
               /\ AllSpace(SubSeq(s, i + Len(r), Len(s)))

\* Position of the first segment m after position from, 0 when there is none.
FirstSeg(m, from) ==
    LET at == {i \in (from + 1)..Len(segs) : segs[i] = m}
    IN  IF at = {} THEN 0 ELSE Min(at)

\* The text of the segments strictly between positions a and b.
SectionText(a, b) == Concat(SegTexts(SubSeq(segs, a + 1, b - 1), lines))

HasMarker == \E i \in 1..Len(segs) : segs[i] \in {"G", "D", "T"}

LineBlank(l) == AllSpace(RenderLine(l))

NonBlankCells(l) == SelectSeq(LineDef(l).cells, IsNonEmpty)

ValidLine(l) == Len(NonBlankCells(l)) = 3

RowOf(l) ==
    LET c == NonBlankCells(l)
    IN  [timestamp |-> c[1], action |-> c[2], notes |-> c[3]]

RECURSIVE DropLeadingBlank(_)
DropLeadingBlank(ls) ==
    IF ls # <<>> /\ LineBlank(ls[1]) THEN DropLeadingBlank(Tail(ls)) ELSE ls

RECURSIVE DropTrailingBlank(_)
DropTrailingBlank(ls) ==
    IF ls # <<>> /\ LineBlank(ls[Len(ls)])
    THEN DropTrailingBlank(SubSeq(ls, 1, Len(ls) - 1)) ELSE ls

\* The rows the table lines stand for: the block starts at its first non-blank
\* line, two lines are the header and the separator, every later line with
\* exactly three non-empty cells is a row.
ExpectedRows(ls) ==
    LET data == SubSeq(DropLeadingBlank(ls), 3, Len(DropLeadingBlank(ls)))
    IN  map(SelectSeq(data, ValidLine), RowOf)

\* The input is a table block between its two markers.
TableInput == segs \in {sk \in Skeletons : sk[Len(sk)] # "TBL"}

\* Only segment "TBL" holds pipe-delimited lines.
RefRows == IF TableInput THEN ExpectedRows(lines) ELSE <<>>

RefGcbBlank ==
    LET g == FirstSeg("G", 0)
        d == FirstSeg("D", g)
    IN  g = 0 \/ d = 0 \/ AllSpace(SectionText(g, d))

RefTechBlank ==
    LET t == FirstSeg("T", 0)
    IN  t = 0 \/ AllSpace(SectionText(t, Len(segs) + 1))

Rows(p) == IF p = NullAnalysis THEN <<>> ELSE p.sceneBreakdown

\* C3: parseAnalysisResult returns null exactly when the cohesion block, the
\* scene table and the technical analysis of the text are all empty, and an
\* object with the three fields in every other case; a text without any marker
\* yields null.
C3_NullIffAllEmpty ==
    parsed # NotParsed =>
        /\ parsed = NullAnalysis <=> (RefGcbBlank /\ RefRows = <<>> /\ RefTechBlank)
        /\ parsed # NullAnalysis =>
              /\ DOMAIN parsed = {"globalCohesionBlock", "sceneBreakdown", "technicalAnalysis"}
              /\ (parsed.globalCohesionBlock = <<>>) <=> RefGcbBlank
              /\ (parsed.technicalAnalysis = <<>>) <=> RefTechBlank
        /\ ~HasMarker => parsed = NullAnalysis

\* An object is returned with the table as its only non-empty field.
C3_Witness ==
    /\ segs = <<"D", "TBL", "T">>
    /\ parsed \notin {NotParsed, NullAnalysis}
    /\ parsed.globalCohesionBlock = <<>>
    /\ parsed.technicalAnalysis = <<>>
    /\ Len(parsed.sceneBreakdown) = 1

\* The table lines are a header line, a separator line and then only lines
\* with exactly three non-empty cells (blank lines around the block aside).
TemplateTable ==
    LET body == DropTrailingBlank(DropLeadingBlank(lines))
    IN  /\ Len(body) >= 2
        /\ ~LineBlank(body[2])
        /\ \A i \in 3..Len(body) : ValidLine(body[i])

\* C4: a table block of a header line, a separator line and N lines of exactly
\* three non-empty cells parses to exactly N rows, in the order of the lines,
\* each row holding its line's three trimmed cells.
C4_TemplateTableRows ==
    (parsed # NotParsed /\ TableInput /\ TemplateTable) =>
        LET body == DropTrailingBlank(DropLeadingBlank(lines))
        IN  /\ Len(Rows(parsed)) = Len(body) - 2
            /\ \A i \in 1..(Len(body) - 2) : Rows(parsed)[i] = RowOf(body[i + 2])

\* Header, separator and two different rows: the rows come out in source order.
C4_Witness ==
    /\ parsed # NotParsed /\ TableInput /\ TemplateTable
    /\ Len(lines) = 4
    /\ lines[3] = "rowA" /\ lines[4] = "rowB"
    /\ Rows(parsed) = <<RowOf("rowA"), RowOf("rowB")>>

\* The first occurrences of the three markers come in template order and the
\* cohesion and technical sections have content.
WellFormedTemplate ==
    LET g == FirstSeg("G", 0)
        d == FirstSeg("D", 0)
        t == FirstSeg("T", 0)
    IN  /\ 0 < g /\ g < d /\ d < t
        /\ ~AllSpace(SectionText(g, d))
        /\ ~AllSpace(SectionText(t, Len(segs) + 1))

\* C5: for a well-formed template text the parser returns a non-empty
\* globalCohesionBlock, the trimmed text between the first and the second
\* marker, and a non-empty technicalAnalysis, the trimmed text after the third.
C5_SectionsRecovered ==
    (parsed # NotParsed /\ WellFormedTemplate) =>
        /\ parsed # NullAnalysis
        /\ parsed.globalCohesionBlock # <<>>
        /\ IsTrimOf(parsed.globalCohesionBlock,
                    SectionText(FirstSeg("G", 0), FirstSeg("D", 0)))
        /\ parsed.technicalAnalysis # <<>>
        /\ IsTrimOf(parsed.technicalAnalysis,
                    SectionText(FirstSeg("T", 0), Len(segs) + 1))

C5_Witness ==
    /\ segs = <<"G", "txt", "D", "T", "txt">>
    /\ parsed \notin {NotParsed, NullAnalysis}
    \* "a dog"
    /\ parsed.globalCohesionBlock = <<"a", " ", "d", "o", "g">>
    \* "a dog"
    /\ parsed.technicalAnalysis = <<"a", " ", "d", "o", "g">>

\* C6: a data line whose number of non-empty cells is not three yields no row
\* and no error, and leaves the rows of the other lines as they are: the rows
\* are exactly those of the data lines with three non-empty cells, in order.
C6_MalformedRowsDropped ==
    (parsed # NotParsed /\ TableInput) => Rows(parsed) = ExpectedRows(lines)

\* A four-cell data line after the separator is dropped and the row of the
\* valid line that follows it is kept.
C6_Witness ==
    /\ parsed # NotParsed /\ TableInput
    /\ Len(lines) = 4
    /\ ~LineBlank(lines[1]) /\ ~LineBlank(lines[2])
    /\ lines[3] = "four" /\ lines[4] = "rowB"
    /\ Rows(parsed) = <<RowOf("rowB")>>

\* ------------------------------------------------------ claims on the App
\* C1: a failed analyzeVideo attempt returns a string that begins with "Error: ".
C1_FailureReturnsErrorPrefix ==
    \* "Error: "
    (last # NoAttempt /\ last.failed) => startsWith(last.returned, <<"E", "r", "r", "o", "r",
                                                                     ":", " ">>)

\* C2: a request reaches the remote model only for a MIME type that begins with
\* "video/"; an attempt whose extracted MIME type does not is rejected without
\* any request having been sent for it.
C2_MimeCheckedBeforeRemoteCall ==
    /\ \A c \in remoteCalls :
          \* "video/"
          /\ startsWith(c.mimeType, <<"v", "i", "d", "e", "o", "/">>)
          \* "video/"
          /\ startsWith(FileType(c.file), <<"v", "i", "d", "e", "o", "/">>)
    /\ \A i \in 1..Len(requests) :
          \* "video/"
          requests[i].pc = "calling" => startsWith(requests[i].mimeType, <<"v", "i", "d", "e",
                                                                           "o", "/">>)
    /\ last # NoAttempt =>
          \* "video/"
          /\ last.called => startsWith(last.mimeType, <<"v", "i", "d", "e", "o", "/">>)
          \* "video/"
          /\ (last.mimeType # Null /\ ~startsWith(last.mimeType, <<"v", "i", "d", "e", "o",
                                                                   "/">>)) =>
                /\ ~last.called
                /\ last.failed
                /\ \A c \in remoteCalls : c.file # last.file

\* The attempt for an image file has ended as a failure with no request sent.
C2_Witness ==
    /\ last # NoAttempt
    /\ last.file = "photo"
    \* "image/png"
    /\ last.mimeType = <<"i", "m", "a", "g", "e", "/", "p", "n", "g">>
    /\ ~last.called
    \* "Error: Invalid file type. Please upload a video file."
    /\ error = <<"E", "r", "r", "o", "r", ":", " ", "I", "n", "v", "a", "l", "i", "d", " ", "f",
                 "i", "l", "e", " ", "t", "y", "p", "e", ".", " ", "P", "l", "e", "a", "s", "e",
                 " ", "u", "p", "l", "o", "a", "d", " ", "a", " ", "v", "i", "d", "e", "o", " ",
                 "f", "i", "l", "e", ".">>
    /\ \E c \in remoteCalls : c.file = "clip"

\* C7: after a successful attempt with text t the App shows the structured
\* sections when parseAnalysisResult(t) is present and the raw text t
\* otherwise; it never shows neither of them nor an error.
C7_SuccessIsShown ==
    (last # NoAttempt /\ ~last.failed) =>
        /\ showsStructured \/ showsRaw \/ showsError
        /\ analysisResult = last.text
        /\ IF parseAnalysisResult(last.text) # NullAnalysis
           THEN showsStructured ELSE showsRaw

\* C8: after handleAnalyzeVideo completes, error is set and analysisResult is
\* null exactly when the attempt failed, and analysisResult is the model's text
\* and error is null exactly when it succeeded.
C8_PrefixTellsSuccessFromFailure ==
    last # NoAttempt =>
        /\ last.failed <=> (error # Null /\ analysisResult = Null)
        /\ ~last.failed <=> (analysisResult # Null /\ analysisResult = last.text
                             /\ error = Null)

\* C9: a stored analysis result or error belongs to the file that is selected.
C9_ResultBelongsToSelectedFile ==
    (analysisResult # Null \/ error # Null) =>
        /\ last # NoAttempt
        /\ last.file = videoFile

\* C10: at most one request is outstanding, and isLoading is true exactly
\* while one is.
C10_OneOutstandingRequest ==
    /\ Len(requests) <= 1
    /\ isLoading <=> (requests # <<>>)

\* A request is outstanding at the remote model while another file has been
\* selected: the button stays disabled.
C10_Witness ==
    /\ Len(requests) = 1
    /\ requests[1].pc = "calling"
    /\ isLoading
    /\ videoFile # requests[1].file
    /\ analyzeDisabled

====
